---- MODULE Spec2Model ----
(***************************************************************************)
(* DExTer's sandboxed debugger run: tools/Main.py (main, tool_main),       *)
(* tools/run_debugger_internal_/Tool.py (handle_options, go) and the       *)
(* Visual Studio driver debugger/visualstudio/VisualStudio.py.             *)
(*                                                                         *)
(* Text (function names, value text, messages, file content) is a sequence *)
(* of tokens; "s in text" of Python is IsInfix.  An optional value is a    *)
(* set: None is {} and a present value v is {v}.                           *)
(***************************************************************************)
EXTENDS Integers, Sequences, FiniteSets, TLC

VARIABLES
    pc,        \* position of the child process in main / tool_main / Tool.go
    options,   \* context.options
    files,     \* the file system: path -> content (lines), or the pickled options
    preRun,    \* history: files as the parent left them before the spawn
    dextIR,    \* context.dextIR, the working Trace
    dbg,       \* the VisualStudio driver object
    backend,   \* the DTE backend: Debugger.CurrentMode, CurrentThread.StackFrames, BreakpointLastHit
    engine,    \* Stepping Engine state
    exc,       \* the exception in flight
    exitCode,  \* exit status of the child, None while it runs
    stderr,    \* the message surfaced on stderr
    hist,      \* history: operations issued, locations queried, teardown, writes
    probe      \* a single driver query applied to drawn inputs, and its result

vars == <<pc, options, files, preRun, dextIR, dbg, backend, engine, exc,
          exitCode, stderr, hist, probe>>

-----------------------------------------------------------------------------
(* Bounds of the model *)

MaxSteps == 3      \* options.max_steps: the configured step-count limit
MaxStack == 4      \* longest call stack drawn for a single get_step_info query
MaxValue == 2      \* longest value text (in tokens) drawn for evaluate_expression
MaxBreakpoints == 3  \* most breakpoints the backend's collection is driven to
MaxTrace == 2      \* most Steps of a Trace drawn for serialization

-----------------------------------------------------------------------------
(* Optional values and text *)

None == {}
Some(v) == {v}
The(o) == CHOOSE v \in o : TRUE

\* Python's "needle in hay" on text
IsInfix(needle, hay) ==
    \E i \in 0..(Len(hay) - Len(needle)) :
        SubSeq(hay, i + 1, i + Len(needle)) = needle

\* Python's hay.startswith(needle)
StartsWith(hay, needle) ==
    /\ Len(needle) <= Len(hay)
    /\ SubSeq(hay, 1, Len(needle)) = needle

SeqsUpTo(S, n) == UNION {[1..k -> S] : k \in 0..n}

-----------------------------------------------------------------------------
(* VisualStudio.py: constants for results of Debugger.CurrentMode *)

dbgDesignMode == 1
dbgBreakMode == 2
dbgRunMode == 3

\* VisualStudio.frames_below_main
frames_below_main ==
    << <<"[Inline Frame]", " invoke_main">>,
       <<"__scrt_common_main_seh">>,
       <<"__t", "mainCRTStartup">>,
       <<"mainCRTStartup">> >>

\* DebuggerBase._sanitize_function_name: the Visual Studio driver keeps the name
_sanitize_function_name(name) == name

LocIR(path, lineno, column) == [path |-> path, lineno |-> lineno, column |-> column]

FrameIR(function, is_inlined, loc) ==
    [function |-> function, is_inlined |-> is_inlined, loc |-> loc]

StepIR(step_index, frames, stop_reason) ==
    [step_index |-> step_index, frames |-> frames, stop_reason |-> stop_reason]

\* _location reading an attribute the breakpoint does not have: the path is lost
_location_nopath(bp) ==
    IF bp = None
    THEN LocIR(None, None, None)
    ELSE LocIR(None, Some(The(bp).FileLine), Some(The(bp).FileColumn))

\* VisualStudio._location: getattr(bp, 'File', None) ... on BreakpointLastHit
_location(bp) ==
    IF bp = None
    THEN LocIR(None, None, None)
    ELSE LocIR(Some(The(bp).File), Some(The(bp).FileLine), Some(The(bp).FileColumn))

\* the test of the loop of get_step_info: any(name in fname for name in frames_below_main)
IsBelowMain(fname) ==
    \E k \in 1..Len(frames_below_main) : IsInfix(frames_below_main[k], fname)

\* the loop with continue in place of break: startup frames are skipped, the
\* frames below them kept
RECURSIVE CollectFrames_skipping(_)
CollectFrames_skipping(stackframes) ==
    IF stackframes = <<>>
    THEN <<>>
    ELSE LET sf == Head(stackframes)
             frame == FrameIR(_sanitize_function_name(sf),
                              StartsWith(sf, <<"[Inline Frame]">>),
                              LocIR(None, None, None))
         IN  IF IsBelowMain(frame.function)
             THEN CollectFrames_skipping(Tail(stackframes))
             ELSE <<frame>> \o CollectFrames_skipping(Tail(stackframes))

\* the loop of get_step_info over thread.StackFrames
RECURSIVE CollectFrames(_)
CollectFrames(stackframes) ==
    IF stackframes = <<>>
    THEN <<>>
    ELSE LET sf == Head(stackframes)
             frame == FrameIR(_sanitize_function_name(sf),
                              StartsWith(sf, <<"[Inline Frame]">>),
                              LocIR(None, None, None))
             fname == IF frame.function = <<>> THEN <<>> ELSE frame.function
         IN  IF IsBelowMain(fname)
             THEN <<>>
             ELSE <<frame>> \o CollectFrames(Tail(stackframes))

\* get_step_info that does not read self.step_index
get_step_info_unindexed(stackframes, bp, step_index) ==
    LET frames == CollectFrames(stackframes)
        loc == _location(bp)
        located == IF frames # <<>> THEN [frames EXCEPT ![1].loc = loc] ELSE frames
        reason == IF loc.path = None THEN "STEP" ELSE "BREAKPOINT"
    IN  StepIR(0, located, reason)

\* get_step_info that gives the Location to every retained frame
get_step_info_all_located(stackframes, bp, step_index) ==
    LET frames == CollectFrames(stackframes)
        loc == _location(bp)
        located == [i \in 1..Len(frames) |-> [frames[i] EXCEPT !.loc = loc]]
        reason == IF loc.path = None THEN "STEP" ELSE "BREAKPOINT"
    IN  StepIR(step_index, located, reason)

\* get_step_info that takes the stop reason from the innermost retained frame
get_step_info_reason_of_frame(stackframes, bp, step_index) ==
    LET frames == CollectFrames(stackframes)
        loc == _location(bp)
        located == IF frames # <<>> THEN [frames EXCEPT ![1].loc = loc] ELSE frames
        reason == IF located = <<>> \/ located[1].loc.path = None
                  THEN "STEP" ELSE "BREAKPOINT"
    IN  StepIR(step_index, located, reason)

\* VisualStudio.get_step_info
get_step_info(stackframes, bp, step_index) ==
    LET frames == CollectFrames(stackframes)
        loc == _location(bp)
        located == IF frames # <<>> THEN [frames EXCEPT ![1].loc = loc] ELSE frames
        reason == IF loc.path = None THEN "STEP" ELSE "BREAKPOINT"
    IN  StepIR(step_index, located, reason)

\* the sentinel texts of evaluate_expression
OptimizedAwayTexts ==
    { <<"Variable is optimized away and not available">>,
      <<"Value is not available, possibly due to optimization">> }

IrretrievableTexts == { <<"???">>, <<"<Unable to read memory>">> }

\* evaluate_expression without the "still counted as evaluated" disjuncts
evaluate_expression_valid_only(expression, result) ==
    LET value == result.Value
        is_optimized_away == \E s \in OptimizedAwayTexts : IsInfix(s, value)
        is_irretrievable == \E s \in IrretrievableTexts : IsInfix(s, value)
    IN  [expression |-> expression,
         value |-> value,
         type |-> result.Type,
         error_string |-> None,
         is_optimized_away |-> is_optimized_away,
         could_evaluate |-> result.IsValidValue,
         is_irretrievable |-> is_irretrievable]

\* evaluate_expression that does not count an irretrievable value as evaluated
evaluate_expression_irretrievable_fails(expression, result) ==
    LET value == result.Value
        is_optimized_away == \E s \in OptimizedAwayTexts : IsInfix(s, value)
        is_irretrievable == \E s \in IrretrievableTexts : IsInfix(s, value)
    IN  [expression |-> expression,
         value |-> value,
         type |-> result.Type,
         error_string |-> None,
         is_optimized_away |-> is_optimized_away,
         could_evaluate |-> result.IsValidValue \/ is_optimized_away,
         is_irretrievable |-> is_irretrievable]

\* VisualStudio.evaluate_expression, on the result of Debugger.GetExpression
evaluate_expression(expression, result) ==
    LET value == result.Value
        is_optimized_away == \E s \in OptimizedAwayTexts : IsInfix(s, value)
        is_irretrievable == \E s \in IrretrievableTexts : IsInfix(s, value)
        could_evaluate == result.IsValidValue \/ is_optimized_away \/ is_irretrievable
    IN  [expression |-> expression,
         value |-> value,
         type |-> result.Type,
         error_string |-> None,
         is_optimized_away |-> is_optimized_away,
         could_evaluate |-> could_evaluate,
         is_irretrievable |-> is_irretrievable]

\* VisualStudio.is_running / is_finished
is_running(b) == b.mode = dbgRunMode
is_finished(b) == b.mode = dbgDesignMode

\* Debugger.Breakpoints is a collection of breakpoint objects; bp.Delete() takes
\* that one object out of it
Delete(bps, bp) ==
    LET i == CHOOSE k \in 1..Len(bps) : bps[k] = bp
    IN  SubSeq(bps, 1, i - 1) \o SubSeq(bps, i + 1, Len(bps))

\* the loop of clear_breakpoints over the breakpoints it visits
RECURSIVE DeleteEach(_, _)
DeleteEach(visit, bps) ==
    IF visit = <<>> THEN bps
    ELSE DeleteEach(Tail(visit), Delete(bps, Head(visit)))

\* clear_breakpoints that deletes the first breakpoint only
clear_breakpoints_first(b) ==
    [b EXCEPT !.breakpoints = IF @ = <<>> THEN @ ELSE Tail(@)]

\* VisualStudio.clear_breakpoints: for bp in Breakpoints: bp.Delete()
clear_breakpoints(b) ==
    [b EXCEPT !.breakpoints = DeleteEach(@, @)]

\* VisualStudio.add_breakpoint: Breakpoints.Add('', file_, line) creates a
\* breakpoint at that place
add_breakpoint(b, file_, line) ==
    [b EXCEPT !.breakpoints =
        Append(@, [Function |-> "", File |-> file_, FileLine |-> line])]

-----------------------------------------------------------------------------
(* The Trace and its serialized form *)

\* dextIR as built by importDextIR: debugger metadata and the Steps
TraceIR(debugger, steps) == [debugger |-> debugger, steps |-> steps]

Line(kind, debugger, step) == [kind |-> kind, debugger |-> debugger, step |-> step]

\* as_json that leaves absent debugger metadata out instead of writing null
as_json_omitting(ir) ==
    (IF ir.debugger = None THEN <<>> ELSE <<Line("debugger", ir.debugger, None)>>)
    \o [i \in 1..Len(ir.steps) |-> Line("step", None, Some(ir.steps[i]))]
    \o <<Line("end", None, None)>>

\* DextIR.as_json: one line of debugger metadata (null when absent), one line per
\* Step, and a closing line
as_json(ir) ==
    <<Line("debugger", ir.debugger, None)>>
    \o [i \in 1..Len(ir.steps) |-> Line("step", None, Some(ir.steps[i]))]
    \o <<Line("end", None, None)>>

\* importDextIR
importDextIR(text) ==
    TraceIR(text[1].debugger,
            [i \in 1..(Len(text) - 2) |-> The(text[i + 1].step)])

\* a complete serialized Trace: opened by the metadata line, closed by the end line
IsCompleteTrace(text) ==
    /\ Len(text) >= 2
    /\ text[1].kind = "debugger"
    /\ text[Len(text)].kind = "end"
    /\ \A i \in 2..(Len(text) - 1) : text[i].kind = "step"

-----------------------------------------------------------------------------
(* Inputs of a run *)

LivePath == "trace.json"        \* the Trace file path of the child's invocation
StalePath == "parent.json"      \* the path recorded in the pickled snapshot
PicklePath == "options.pickle"

Options(version, colortest, unittest, lint, error_debug, verbose, wd, json) ==
    [version |-> version, colortest |-> colortest, unittest |-> unittest,
     lint |-> lint, error_debug |-> error_debug, verbose |-> verbose,
     working_directory |-> wd, json |-> json,
     pickled_options |-> PicklePath, debugger |-> "vs2015",
     max_steps |-> MaxSteps]

\* what tool.parse_command_line can return for the child's arguments
LiveOptions ==
    { Options(v, c, h[1], h[2], e, FALSE, "child_wd", LivePath) :
        v \in BOOLEAN, c \in BOOLEAN, e \in BOOLEAN,
        h \in { <<"off", "off">>, <<"show-failures", "errors">> } }

\* what the parent can have pickled
PickledOptions ==
    { Options(FALSE, FALSE, "parent", "parent", e, vb, "parent_wd", StalePath) :
        e \in BOOLEAN, vb \in BOOLEAN }

DebuggerIR(name, version) == [name |-> name, version |-> version]

\* the Trace the parent serialized before the spawn: no Steps yet
ParentTraces == { TraceIR(None, <<>>) }

\* diagnostics of the ImportError raised while loading ComInterface
Diagnostics == { <<"No module named win32com">>, <<"DLL load failed">> }

FunctionNames ==
    { <<"foo">>, <<"bar">>, <<"[Inline Frame]", "baz">>, <<"wrap_", "mainCRTStartup">>,
      <<"mainCRTStartup">>, <<"__t", "mainCRTStartup">>,
      <<"[Inline Frame]", " invoke_main">> }

\* the call stacks the backend reports during a run
RunStacks ==
    { << <<"foo">>, <<"bar">>, <<"mainCRTStartup">>, <<"__t", "mainCRTStartup">> >>,
      << <<"mainCRTStartup">>, <<"__t", "mainCRTStartup">> >> }

Breakpoint(file, line, column) == [File |-> file, FileLine |-> line, FileColumn |-> column]

\* Debugger.BreakpointLastHit: no breakpoint object, or one with its position
LastHits ==
    { None, Some(Breakpoint("a.cpp", 10, 1)), Some(Breakpoint("a.cpp", 11, 1)) }

NoException == [kind |-> "none", msg |-> <<>>]
Raise(kind, msg) == [kind |-> kind, msg |-> msg]

\* VisualStudio.__init__ : nothing loaded yet
NewDebugger ==
    [name |-> "vs2015", interface |-> None, has_loaded |-> FALSE,
     loading_error |-> None, loading_error_trace |-> <<>>,
     debugger |-> None, solution |-> None, fn_step |-> None, fn_go |-> None,
     step_index |-> 0]

IdleBackend == [mode |-> dbgDesignMode, stack |-> <<>>, bp |-> None, breakpoints |-> <<>>]

NoHistory ==
    [issued |-> {}, queried |-> <<>>, load_failed |-> FALSE, entered |-> FALSE,
     quits |-> 0, writes |-> 0, checks |-> <<>>, fault |-> "none", calls |-> 0]

NoProbe == [op |-> "none", arg |-> <<>>, bp |-> None, index |-> 0,
            valid |-> FALSE, done |-> FALSE, step |-> None, value |-> None,
            before |-> <<>>]

Init ==
    /\ pc = "tm_version"
    /\ options \in LiveOptions
    /\ \E t \in ParentTraces, p \in PickledOptions :
          files = [f \in {LivePath, StalePath, PicklePath} |->
                      IF f = PicklePath THEN <<p>> ELSE as_json(t)]
    /\ preRun = files
    /\ dextIR = TraceIR(None, <<>>)
    /\ dbg = NewDebugger
    /\ backend = IdleBackend
    /\ engine = "NOT_STARTED"
    /\ exc = NoException
    /\ exitCode = None
    /\ stderr = <<>>
    /\ hist = NoHistory
    /\ probe = NoProbe

-----------------------------------------------------------------------------
(* Main.py: tool_main and the exception handlers of main *)

Running == pc \notin {"exited", "crashed", "probe"}

\* a return of main: the value is the exit status
Return(code) ==
    /\ pc' = "exited"
    /\ exitCode' = Some(code)
    /\ exc' = NoException

\* raise Error(msg) / any exception leaving tool_main: caught in main
Throw(kind, msg) ==
    /\ pc' = "main_except"
    /\ exc' = Raise(kind, msg)
    /\ exitCode' = exitCode

\* the checks of tool_main in the order they are made, each with how it went:
\* "passed", "failed", or "returned" for a short-circuit that returned 0
Checked(check, result) ==
    hist' = [hist EXCEPT !.checks = Append(@, [check |-> check, result |-> result])]

\* tool_main, lines 66-68: options.version prints the version and returns 0
TmVersion ==
    /\ pc = "tm_version"
    /\ IF options.version
       THEN /\ Return(0)
            /\ Checked("version", "returned")
       ELSE /\ pc' = "tm_unittest"
            /\ Checked("version", "passed")
            /\ UNCHANGED <<exc, exitCode>>
    /\ UNCHANGED <<options, files, preRun, dextIR, dbg, backend, engine, stderr, probe>>

\* tool_main, lines 70-71; unit_tests_ok(context) is the harness's verdict
TmUnitTest ==
    /\ pc = "tm_unittest"
    /\ \E unit_tests_ok \in BOOLEAN :
          IF options.unittest # "off" /\ ~unit_tests_ok
          THEN /\ Throw("Error", <<"<d>unit test failures</>">>)
               /\ Checked("unittest", "failed")
          ELSE /\ pc' = "tm_lint"
               /\ Checked("unittest", "passed")
               /\ UNCHANGED <<exc, exitCode>>
    /\ UNCHANGED <<options, files, preRun, dextIR, dbg, backend, engine, stderr, probe>>

\* tool_main going on after linting failures
TmLint_lenient ==
    /\ pc = "tm_lint"
    /\ \E linting_ok \in BOOLEAN :
          /\ pc' = "tm_colortest"
          /\ Checked("lint", IF options.lint # "off" /\ ~linting_ok
                             THEN "failed" ELSE "passed")
          /\ UNCHANGED <<exc, exitCode>>
    /\ UNCHANGED <<options, files, preRun, dextIR, dbg, backend, engine, stderr, probe>>

\* tool_main, lines 73-74
TmLint ==
    /\ pc = "tm_lint"
    /\ \E linting_ok \in BOOLEAN :
          IF options.lint # "off" /\ ~linting_ok
          THEN /\ Throw("Error", <<"<d>linting failures</>">>)
               /\ Checked("lint", "failed")
          ELSE /\ pc' = "tm_colortest"
               /\ Checked("lint", "passed")
               /\ UNCHANGED <<exc, exitCode>>
    /\ UNCHANGED <<options, files, preRun, dextIR, dbg, backend, engine, stderr, probe>>

\* tool_main, lines 76-78
TmColorTest ==
    /\ pc = "tm_colortest"
    /\ IF options.colortest
       THEN /\ Return(0)
            /\ Checked("colortest", "returned")
       ELSE /\ pc' = "tm_base"
            /\ Checked("colortest", "passed")
            /\ UNCHANGED <<exc, exitCode>>
    /\ UNCHANGED <<options, files, preRun, dextIR, dbg, backend, engine, stderr, probe>>

\* handle_options that keeps the Trace file path of the pickled options
handle_options_stale_json(live, fs) ==
    LET poptions == fs[live.pickled_options][1]
    IN  [poptions EXCEPT !.working_directory = live.working_directory,
                         !.lint = live.lint,
                         !.unittest = live.unittest]

\* Tool.handle_options: read the Trace file and the pickled options, carry four
\* fields over from the live options
handle_options(live, fs) ==
    LET poptions == fs[live.pickled_options][1]
    IN  [poptions EXCEPT !.working_directory = live.working_directory,
                         !.lint = live.lint,
                         !.unittest = live.unittest,
                         !.json = live.json]

\* tool_main, lines 80-83: tool.handle_base_options(defaults), which ends in
\* Tool.handle_options; a ToolArgumentError becomes an Error
TmHandleBaseOptions ==
    /\ pc = "tm_base"
    /\ \E rejected \in BOOLEAN :
          IF rejected
          THEN /\ Throw("Error", <<"invalid argument">>)
               /\ Checked("base", "failed")
               /\ UNCHANGED <<options, dextIR>>
          ELSE /\ dextIR' = importDextIR(files[options.json])
               /\ options' = handle_options(options, files)
               /\ pc' = "go_load"
               /\ Checked("base", "passed")
               /\ UNCHANGED <<exc, exitCode>>
    /\ UNCHANGED <<files, preRun, dbg, backend, engine, stderr, probe>>

\* tool_main, lines 87-88: tool.go() returned, return 0
TmReturn ==
    /\ pc = "tm_return"
    /\ Return(0)
    /\ UNCHANGED <<options, files, preRun, dextIR, dbg, backend, engine, stderr, hist, probe>>

\* main returning 0 from its Error handler
MainExcept_zero ==
    /\ pc = "main_except"
    /\ pc' = "exited"
    /\ stderr' = IF exc.kind = "Error" THEN <<"\nerror: ">> \o exc.msg \o <<"\n">> ELSE stderr
    /\ exitCode' = IF exc.kind = "Error" THEN Some(0) ELSE Some(1)
    /\ exc' = IF exc.kind = "Error" THEN NoException ELSE exc
    /\ UNCHANGED <<options, files, preRun, dextIR, dbg, backend, engine, hist, probe>>

\* main, lines 134-170: Error is printed and turned into exit status 1 (re-raised
\* under error_debug); KeyboardInterrupt and SystemExit are re-raised; anything
\* else prints the bug banner and is re-raised.  An exception that leaves main
\* ends the interpreter with a non-zero status.
MainExcept ==
    /\ pc = "main_except"
    /\ pc' = "exited"
    /\ CASE exc.kind = "Error" ->
              /\ stderr' = <<"\nerror: ">> \o exc.msg \o <<"\n">>
              /\ exitCode' = Some(1)
              /\ exc' = IF options.error_debug THEN exc ELSE NoException
         [] exc.kind = "KeyboardInterrupt" ->
              /\ stderr' = stderr
              /\ exitCode' = Some(130)
              /\ exc' = exc
         [] OTHER ->
              /\ stderr' = <<"This is a bug in DExTer.", "Please report it.">>
              /\ exitCode' = Some(1)
              /\ exc' = exc
    /\ UNCHANGED <<options, files, preRun, dextIR, dbg, backend, engine, hist, probe>>

-----------------------------------------------------------------------------
(* Loading the driver: Tool.go lines 65-77 *)

\* _load_com_module and VisualStudio._load_interface: an ImportError of the COM
\* module is raised as a LoadDebuggerException carrying it and its trace; the
\* call com_module.DTE(...) is under no handler, what it raises goes on as it is
_load_interface(import_error, dte_error) ==
    IF import_error # None
    THEN [interface |-> None,
          error |-> import_error,
          trace |-> <<"Traceback (most recent call last):\n">> \o The(import_error),
          raised |-> "LoadDebuggerException"]
    ELSE IF dte_error # None
    THEN [interface |-> None, error |-> dte_error, trace |-> <<>>, raised |-> "OSError"]
    ELSE [interface |-> Some("DTE"), error |-> None, trace |-> <<>>, raised |-> "none"]

\* Debuggers.load: construct the driver; a LoadDebuggerException is kept on the
\* driver as its loading error instead of reaching the caller
load(d, import_error) ==
    LET r == _load_interface(import_error, None)
    IN  [d EXCEPT !.interface = r.interface,
                  !.has_loaded = (r.error = None),
                  !.loading_error = r.error,
                  !.loading_error_trace = r.trace]

\* DebuggerBase.is_available
is_available(d) == d.has_loaded /\ d.loading_error = None

\* VisualStudio.version: self._interface.Version, None on AttributeError
version(d) == IF d.interface = None THEN None ELSE Some("14.0")

\* DebuggerBase.debugger_info
debugger_info(d) == Some(DebuggerIR(d.name, version(d)))

\* the message without the loading error
could_not_load_terse(d, verbose) ==
    <<"<d>could not load ", d.name, "</>\n">>

\* Tool.go lines 72-76: the message of the Error raised for an unavailable driver
could_not_load(d, verbose) ==
    LET msg == <<"<d>could not load ", d.name, "</> (">>
               \o The(d.loading_error) \o <<")\n">>
    IN  IF verbose
        THEN msg \o <<"\n    ">> \o d.loading_error_trace
        ELSE msg

\* Tool.go lines 65-68
GoLoad ==
    /\ pc = "go_load"
    /\ \E import_error \in {None} \cup {Some(e) : e \in Diagnostics},
          dte_error \in {None, Some(<<"OSError: DTE">>)} :
          IF _load_interface(import_error, dte_error).raised = "OSError"
          THEN /\ Throw("Exception", The(dte_error))
               /\ hist' = [hist EXCEPT !.fault = "DTE"]
               /\ UNCHANGED <<dbg, dextIR>>
          ELSE /\ dbg' = load(dbg, import_error)
               /\ hist' = [hist EXCEPT !.load_failed = (import_error # None),
                                       !.fault = IF import_error # None
                                                 THEN "ComInterface" ELSE "none"]
               /\ dextIR' = [dextIR EXCEPT !.debugger = debugger_info(dbg')]
               /\ pc' = "go_check"
               /\ UNCHANGED <<exc, exitCode>>
    /\ UNCHANGED <<options, files, preRun, backend, engine, stderr, probe>>

\* go() without the availability check
GoCheckAvailable_unchecked ==
    /\ pc = "go_check"
    /\ pc' = "go_enter"
    /\ UNCHANGED <<options, files, preRun, dextIR, dbg, backend, engine, exc, exitCode,
                   stderr, hist, probe>>

\* Tool.go lines 70-77
GoCheckAvailable ==
    /\ pc = "go_check"
    /\ IF ~is_available(dbg)
       THEN Throw("Error", could_not_load(dbg, options.verbose))
       ELSE /\ pc' = "go_enter"
            /\ UNCHANGED <<exc, exitCode>>
    /\ UNCHANGED <<options, files, preRun, dextIR, dbg, backend, engine, stderr, hist, probe>>

-----------------------------------------------------------------------------
(* The scoped session: with debugger (Tool.go line 79) *)

SetupFaults == {"none", "Debugger", "MainWindow", "Solution", "Create", "AddFromFile"}

\* VisualStudio._custom_init: the attributes are read in order; an AttributeError
\* on any of them, or an OSError of Solution.AddFromFile, is raised as a
\* LoadDebuggerException and leaves what was assigned before it; an OSError of
\* Solution.Create is under the AttributeError handler only and goes on as it is
_custom_init(d, fault) ==
    CASE fault = "Debugger" ->
           [dbg |-> d, error |-> Some(<<"AttributeError: Debugger">>),
            raised |-> "LoadDebuggerException"]
      [] fault = "MainWindow" ->
           [dbg |-> [d EXCEPT !.debugger = Some("Debugger")],
            error |-> Some(<<"AttributeError: MainWindow">>),
            raised |-> "LoadDebuggerException"]
      [] fault = "Solution" ->
           [dbg |-> [d EXCEPT !.debugger = Some("Debugger")],
            error |-> Some(<<"AttributeError: Solution">>),
            raised |-> "LoadDebuggerException"]
      [] fault = "Create" ->
           [dbg |-> [d EXCEPT !.debugger = Some("Debugger"),
                              !.solution = Some("DexterSolution")],
            error |-> Some(<<"OSError: Create">>),
            raised |-> "OSError"]
      [] fault = "AddFromFile" ->
           [dbg |-> [d EXCEPT !.debugger = Some("Debugger"),
                              !.solution = Some("DexterSolution")],
            error |-> Some(<<"could not debug the specified executable">>),
            raised |-> "LoadDebuggerException"]
      [] OTHER ->
           [dbg |-> [d EXCEPT !.debugger = Some("Debugger"),
                              !.solution = Some("DexterSolution"),
                              !.fn_step = Some("StepInto"),
                              !.fn_go = Some("Go")],
            error |-> None,
            raised |-> "none"]

\* DebuggerBase.__enter__: backend-specific setup; a LoadDebuggerException is kept
\* as the loading error (with its trace) and the scope is entered, so that
\* __exit__ runs; any other exception leaves __enter__, and the with statement
\* then runs neither its body nor __exit__
GoEnter ==
    /\ pc = "go_enter"
    /\ \E fault \in SetupFaults :
          LET r == _custom_init(dbg, fault)
          IN  CASE r.raised = "none" ->
                     /\ dbg' = r.dbg
                     /\ hist' = [hist EXCEPT !.entered = TRUE]
                     /\ pc' = "eng_launch"
                     /\ UNCHANGED <<exc, exitCode>>
                [] r.raised = "LoadDebuggerException" ->
                     /\ dbg' = [r.dbg EXCEPT
                            !.loading_error = r.error,
                            !.loading_error_trace =
                                <<"Traceback (most recent call last):\n">> \o The(r.error)]
                     /\ hist' = [hist EXCEPT !.entered = TRUE, !.fault = fault]
                     /\ pc' = "eng_launch"
                     /\ UNCHANGED <<exc, exitCode>>
                [] OTHER ->
                     /\ dbg' = r.dbg
                     /\ hist' = [hist EXCEPT !.fault = fault]
                     /\ Throw("Exception", The(r.error))
    /\ UNCHANGED <<options, files, preRun, dextIR, backend, engine, stderr, probe>>

\* _custom_exit with its test inverted: the live interface is never quit
_custom_exit_inverted(d, h) ==
    IF d.interface = None THEN [h EXCEPT !.quits = @ + 1] ELSE h

\* VisualStudio._custom_exit: quit the interface if there is one
_custom_exit(d, h) ==
    IF d.interface # None THEN [h EXCEPT !.quits = @ + 1] ELSE h

\* leaving the with block (DebuggerBase.__exit__): teardown, then the exception
\* in flight goes on to main, or go() continues with the write
GoExit ==
    /\ pc = "go_exit"
    /\ hist' = _custom_exit(dbg, hist)
    /\ backend' = IdleBackend
    /\ pc' = IF exc.kind = "none" THEN "go_open" ELSE "main_except"
    /\ UNCHANGED <<options, files, preRun, dextIR, dbg, engine, exc, exitCode, stderr, probe>>

-----------------------------------------------------------------------------
(* The Stepping Engine: DebuggerBase.start, called at Tool.go lines 80-83 *)

DriverOutcomes == {"ok", "DebuggerException", "Exception"}

\* a Driver operation raised: the engine fails; Tool.go turns a
\* DebuggerException into an Error, anything else goes on as it is
EngineFails(outcome) ==
    /\ engine' = "FAILED"
    /\ exc' = IF outcome = "DebuggerException"
              THEN Raise("Error", <<"debugger operation failed">>)
              ELSE Raise("Exception", <<"unexpected exception">>)
    /\ pc' = "go_exit"

\* the operations issued, and the stepping calls the backend received for them
Issue(ops, calls) ==
    hist' = [hist EXCEPT !.issued = @ \cup ops, !.calls = @ + Len(calls)]

\* VisualStudio.step: one call of self._fn_step (Debugger.StepInto)
step(d) == <<d.fn_step>>

\* VisualStudio.go: one call of self._fn_go (Debugger.Go)
go(d) == <<d.fn_go>>

\* launch that steps twice
launch_twice(d) == step(d) \o step(d)

\* VisualStudio.launch: self.step()
launch(d) == step(d)

\* VisualStudio.launch: self.step(), which calls self._fn_step (None unless
\* _custom_init reached its end)
EngLaunch ==
    /\ pc = "eng_launch"
    /\ IF dbg.fn_step = None
       THEN /\ EngineFails("Exception")
            /\ UNCHANGED <<backend, hist>>
       ELSE \E outcome \in DriverOutcomes :
              IF outcome = "ok"
              THEN /\ engine' = "STEPPING"
                   /\ backend' = [backend EXCEPT !.mode = dbgRunMode]
                   /\ Issue({"launch", "step"}, launch(dbg))
                   /\ pc' = "eng_poll"
                   /\ exc' = exc
              ELSE /\ EngineFails(outcome)
                   /\ Issue({"launch"}, <<>>)
                   /\ backend' = backend
    /\ UNCHANGED <<options, files, preRun, dextIR, dbg, exitCode, stderr, probe>>

\* the backend: the debuggee stops at a breakpoint or after a step, or exits
BackendSettle ==
    /\ pc = "eng_poll"
    /\ is_running(backend)
    /\ \/ \E stack \in RunStacks, bp \in LastHits :
             backend' = [backend EXCEPT !.mode = dbgBreakMode, !.stack = stack, !.bp = bp]
       \/ backend' = IdleBackend
    /\ UNCHANGED <<pc, options, files, preRun, dextIR, dbg, engine, exc, exitCode,
                   stderr, hist, probe>>

\* the poll found is_finished: the engine is done
EngFinish ==
    /\ pc = "eng_poll"
    /\ ~is_running(backend)
    /\ is_finished(backend)
    /\ engine' = "FINISHED"
    /\ pc' = "go_exit"
    /\ UNCHANGED <<options, files, preRun, dextIR, dbg, backend, exc, exitCode,
                   stderr, hist, probe>>

\* the poll found a stop: get_step_info, append the Step, count it
EngGetStepInfo ==
    /\ pc = "eng_poll"
    /\ ~is_running(backend)
    /\ ~is_finished(backend)
    /\ \E outcome \in DriverOutcomes :
          IF outcome = "ok"
          THEN /\ dextIR' = [dextIR EXCEPT !.steps =
                    Append(@, get_step_info(backend.stack, backend.bp, dbg.step_index))]
               /\ dbg' = [dbg EXCEPT !.step_index = @ + 1]
               /\ hist' = [hist EXCEPT
                    !.issued = @ \cup {"get_step_info"},
                    !.queried = Append(@, [stack |-> backend.stack, bp |-> backend.bp])]
               /\ pc' = "eng_advance"
               /\ UNCHANGED <<engine, exc>>
          ELSE /\ EngineFails(outcome)
               /\ Issue({"get_step_info"}, <<>>)
               /\ UNCHANGED <<dextIR, dbg>>
    /\ UNCHANGED <<options, files, preRun, backend, exitCode, stderr, probe>>

\* after a Step: the step-count limit ends the run, else step() or go()
EngAdvance ==
    /\ pc = "eng_advance"
    /\ IF Len(dextIR.steps) >= options.max_steps
       THEN /\ engine' = "FINISHED"
            /\ pc' = "go_exit"
            /\ UNCHANGED <<backend, exc, hist>>
       ELSE \E op \in {"step", "go"}, outcome \in DriverOutcomes :
              /\ Issue({op}, IF outcome # "ok" THEN <<>>
                             ELSE IF op = "step" THEN step(dbg) ELSE go(dbg))
              /\ IF outcome = "ok"
                 THEN /\ backend' = [backend EXCEPT !.mode = dbgRunMode]
                      /\ pc' = "eng_poll"
                      /\ UNCHANGED <<engine, exc>>
                 ELSE /\ EngineFails(outcome)
                      /\ backend' = backend
    /\ UNCHANGED <<options, files, preRun, dextIR, dbg, exitCode, stderr, probe>>

-----------------------------------------------------------------------------
(* Writing the Trace back: Tool.go lines 85-86 *)

\* open(self.context.options.json, 'w'): the file is truncated
GoOpen ==
    /\ pc = "go_open"
    /\ files' = [files EXCEPT ![options.json] = <<>>]
    /\ pc' = "go_write"
    /\ UNCHANGED <<options, preRun, dextIR, dbg, backend, engine, exc, exitCode,
                   stderr, hist, probe>>

\* fp.write(self.context.dextIR.as_json): as_json is evaluated with the file
\* open, and may raise; then the payload is written and the file closed
GoWrite ==
    /\ pc = "go_write"
    /\ \E serialized \in BOOLEAN :
          IF serialized
          THEN /\ files' = [files EXCEPT ![options.json] = as_json(dextIR)]
               /\ hist' = [hist EXCEPT !.writes = @ + 1]
               /\ pc' = "tm_return"
               /\ UNCHANGED <<exc, exitCode>>
          ELSE /\ Throw("Exception", <<"as_json failed">>)
               /\ UNCHANGED <<files, hist>>
    /\ UNCHANGED <<options, preRun, dextIR, dbg, backend, engine, stderr, probe>>

-----------------------------------------------------------------------------
(* Interrupts and crashes *)

InWith == pc \in {"eng_launch", "eng_poll", "eng_advance"}

\* KeyboardInterrupt: inside the with block it unwinds through __exit__, elsewhere
\* it goes straight to main
Interrupt ==
    /\ Running
    /\ pc \notin {"main_except", "go_exit"}
    /\ exc' = Raise("KeyboardInterrupt", <<>>)
    /\ pc' = IF InWith THEN "go_exit" ELSE "main_except"
    /\ UNCHANGED <<options, files, preRun, dextIR, dbg, backend, engine, exitCode,
                   stderr, hist, probe>>

\* the child process dies (native fault, kill): nothing more runs; a write under
\* way leaves a prefix of the payload
Crash ==
    /\ Running
    /\ pc' = "crashed"
    /\ exitCode' = Some(139)
    /\ IF pc = "go_write"
       THEN \E n \in 0..(Len(as_json(dextIR)) - 1) :
               files' = [files EXCEPT ![options.json] = SubSeq(as_json(dextIR), 1, n)]
       ELSE files' = files
    /\ UNCHANGED <<options, preRun, dextIR, dbg, backend, engine, exc, stderr, hist, probe>>

Next ==
    \/ TmVersion
    \/ TmUnitTest
    \/ TmLint
    \/ TmColorTest
    \/ TmHandleBaseOptions
    \/ GoLoad
    \/ GoCheckAvailable
    \/ GoEnter
    \/ EngLaunch
    \/ BackendSettle
    \/ EngFinish
    \/ EngGetStepInfo
    \/ EngAdvance
    \/ GoExit
    \/ GoOpen
    \/ GoWrite
    \/ TmReturn
    \/ MainExcept
    \/ Interrupt
    \/ Crash

Spec == Init /\ [][Next]_vars

\* a run that is neither interrupted nor killed, in which the child goes on
\* with its next statement and a running debuggee stops or exits
EngineNext ==
    \/ TmVersion
    \/ TmUnitTest
    \/ TmLint
    \/ TmColorTest
    \/ TmHandleBaseOptions
    \/ GoLoad
    \/ GoCheckAvailable
    \/ GoEnter
    \/ EngLaunch
    \/ BackendSettle
    \/ EngFinish
    \/ EngGetStepInfo
    \/ EngAdvance
    \/ GoExit
    \/ GoOpen
    \/ GoWrite
    \/ TmReturn
    \/ MainExcept

EngineSpec == Init /\ [][EngineNext]_vars /\ WF_vars(EngineNext)

-----------------------------------------------------------------------------
(* Single driver queries on drawn inputs *)

Idle ==
    /\ pc = "probe"
    /\ options \in {Options(FALSE, FALSE, "off", "off", FALSE, FALSE, "child_wd", LivePath)}
    /\ files = [f \in {LivePath, StalePath, PicklePath} |-> <<>>]
    /\ preRun = files
    /\ dextIR = TraceIR(None, <<>>)
    /\ dbg = NewDebugger
    /\ backend = IdleBackend
    /\ engine = "NOT_STARTED"
    /\ exc = NoException
    /\ exitCode = None
    /\ stderr = <<>>
    /\ hist = NoHistory

Unprobed == <<pc, options, files, preRun, dextIR, dbg, backend, engine, exc,
              exitCode, stderr, hist>>

\* the backend stopped with some call stack and some last-hit breakpoint
FrameInit ==
    /\ Idle
    /\ \E stack \in SeqsUpTo(FunctionNames, MaxStack), bp \in LastHits, i \in 0..1 :
          probe = [NoProbe EXCEPT !.op = "get_step_info", !.arg = stack,
                                  !.bp = bp, !.index = i]

ProbeStepInfo ==
    /\ probe.op = "get_step_info"
    /\ ~probe.done
    /\ probe' = [probe EXCEPT !.done = TRUE,
                              !.step = Some(get_step_info(probe.arg, probe.bp, probe.index))]
    /\ UNCHANGED Unprobed

FrameNext == ProbeStepInfo

FrameSpec == FrameInit /\ [][FrameNext]_vars

ValueTokens ==
    { "42", "???", "<Unable to read memory>",
      "Variable is optimized away and not available",
      "Value is not available, possibly due to optimization" }

\* Debugger.GetExpression returned some value text, valid or not
EvalInit ==
    /\ Idle
    /\ \E value \in SeqsUpTo(ValueTokens, MaxValue), valid \in BOOLEAN :
          probe = [NoProbe EXCEPT !.op = "evaluate_expression", !.arg = value,
                                  !.valid = valid]

ProbeEvaluate ==
    /\ probe.op = "evaluate_expression"
    /\ ~probe.done
    /\ probe' = [probe EXCEPT !.done = TRUE,
                    !.value = Some(evaluate_expression(<<"x">>,
                        [Value |-> probe.arg, IsValidValue |-> probe.valid,
                         Type |-> <<"int">>]))]
    /\ UNCHANGED Unprobed

EvalNext == ProbeEvaluate

EvalSpec == EvalInit /\ [][EvalNext]_vars

\* the places breakpoints are put at
BreakpointFiles == {"a.cpp", "b.cpp"}
BreakpointLines == {10, 11}

BreakInit ==
    /\ Idle
    /\ probe = [NoProbe EXCEPT !.op = "breakpoints"]

ProbeAddBreakpoint ==
    /\ probe.op \in {"breakpoints", "add_breakpoint", "clear_breakpoints"}
    /\ Len(backend.breakpoints) < MaxBreakpoints
    /\ \E file_ \in BreakpointFiles, line \in BreakpointLines :
          /\ backend' = add_breakpoint(backend, file_, line)
          /\ probe' = [probe EXCEPT !.op = "add_breakpoint",
                                    !.arg = <<file_>>,
                                    !.index = line,
                                    !.before = backend.breakpoints]
    /\ UNCHANGED <<pc, options, files, preRun, dextIR, dbg, engine, exc, exitCode,
                   stderr, hist>>

ProbeClearBreakpoints ==
    /\ probe.op \in {"breakpoints", "add_breakpoint", "clear_breakpoints"}
    /\ backend' = clear_breakpoints(backend)
    /\ probe' = [probe EXCEPT !.op = "clear_breakpoints",
                              !.arg = <<>>,
                              !.index = 0,
                              !.before = backend.breakpoints]
    /\ UNCHANGED <<pc, options, files, preRun, dextIR, dbg, engine, exc, exitCode,
                   stderr, hist>>

BreakNext ==
    \/ ProbeAddBreakpoint
    \/ ProbeClearBreakpoints

BreakSpec == BreakInit /\ [][BreakNext]_vars

\* Steps as get_step_info builds them
DrawnSteps ==
    { get_step_info(stack, bp, i) : stack \in RunStacks \cup {<<>>}, bp \in LastHits,
                                    i \in 0..1 }

\* Traces the parent can have serialized: with or without debugger metadata,
\* with or without a version
DrawnTraces ==
    { TraceIR(d, steps) :
        d \in {None, Some(DebuggerIR("vs2015", None)), Some(DebuggerIR("vs2015", Some("14.0")))},
        steps \in SeqsUpTo(DrawnSteps, MaxTrace) }

\* the Trace file holds a serialized Trace; nothing has been read yet
SerialInit ==
    /\ pc = "probe"
    /\ options \in {Options(FALSE, FALSE, "off", "off", FALSE, FALSE, "child_wd", LivePath)}
    /\ \E t \in DrawnTraces :
          files = [f \in {LivePath, StalePath, PicklePath} |->
                      IF f = LivePath THEN as_json(t) ELSE <<>>]
    /\ preRun = files
    /\ dextIR = TraceIR(None, <<>>)
    /\ dbg = NewDebugger
    /\ backend = IdleBackend
    /\ engine = "NOT_STARTED"
    /\ exc = NoException
    /\ exitCode = None
    /\ stderr = <<>>
    /\ hist = NoHistory
    /\ probe = [NoProbe EXCEPT !.op = "read"]

\* Tool.handle_options lines 47-49: the child reads the Trace file
ProbeRead ==
    /\ probe.op = "read"
    /\ dextIR' = importDextIR(files[options.json])
    /\ probe' = [probe EXCEPT !.op = "write_back"]
    /\ UNCHANGED <<pc, options, files, preRun, dbg, backend, engine, exc, exitCode,
                   stderr, hist>>

\* Tool.go lines 85-86, with no Step appended and no metadata changed since the
\* read: the child writes the Trace back
ProbeWriteBack ==
    /\ probe.op = "write_back"
    /\ ~probe.done
    /\ files' = [files EXCEPT ![options.json] = as_json(dextIR)]
    /\ probe' = [probe EXCEPT !.done = TRUE]
    /\ UNCHANGED <<pc, options, preRun, dextIR, dbg, backend, engine, exc, exitCode,
                   stderr, hist>>

SerialNext ==
    \/ ProbeRead
    \/ ProbeWriteBack

SerialSpec == SerialInit /\ [][SerialNext]_vars

-----------------------------------------------------------------------------
(* Properties *)

Stopped == pc \in {"exited", "crashed"}
TraceFile == files[LivePath]
ExitedNonZero == exitCode # None /\ exitCode # Some(0)

\* C1: when the driver load fails (the loaded debugger is not available), the
\* Trace file keeps its pre-run content and is never written, the child's exit
\* status is non-zero, and the message the child surfaces (when it gets as far as
\* reporting, i.e. is not interrupted first) contains the loading diagnostic.
C1_LoadFailureLeavesTrace ==
    hist.load_failed =>
        /\ files = preRun
        /\ hist.writes = 0
        /\ Stopped => ExitedNonZero
        /\ (pc = "exited" /\ exc.kind # "KeyboardInterrupt") =>
               IsInfix(The(dbg.loading_error), stderr)

C1_Witness ==
    /\ hist.load_failed
    /\ pc = "exited"
    /\ exitCode = Some(1)
    /\ ~options.verbose
    /\ TraceFile = preRun[LivePath]
    /\ IsInfix(<<"DLL load failed">>, stderr)

\* C2: when a Driver operation raises mid-run after k Steps were appended, the
\* run ends FAILED and the Trace file then holds a complete Trace, written by
\* this run, with exactly those k Steps and a terminal failure annotation.
C2_PartialTracePersisted ==
    (pc = "exited" /\ engine = "FAILED" /\ "step" \in hist.issued) =>
        /\ hist.writes = 1
        /\ IsCompleteTrace(TraceFile)
        /\ importDextIR(TraceFile).steps = dextIR.steps
        /\ \E i \in 1..Len(TraceFile) : TraceFile[i].kind = "failure"

\* C3: in every reachable state the Trace file holds either the complete pre-run
\* content or the complete new content (the serialized working Trace), never an
\* empty, truncated or partially written one.
C3_AtomicWrite ==
    \/ TraceFile = preRun[LivePath]
    \/ TraceFile = as_json(dextIR)

\* C4: once the session's setup has run, wholly (the scope is entered) or in
\* part (it failed part-way), the interface has been quit exactly once by the
\* time the child is past the with statement, whether the engine finished, a
\* Driver operation failed, the run was interrupted, or setup had failed
\* part-way; in particular before the child exits.
C4_TeardownOnEveryExit ==
    ((hist.entered \/ hist.fault \in SetupFaults \ {"none"})
        /\ pc \in {"go_open", "go_write", "tm_return", "main_except", "exited"}) =>
        hist.quits = 1

\* C5: in a run whose driver load failed, the session scope is never entered,
\* the engine never starts, no launch/step/go/get_step_info is issued, the exit
\* status is non-zero and (unless interrupted first) an error is reported.
C5_LoadFailureSkipsEngine ==
    hist.load_failed =>
        /\ ~hist.entered
        /\ engine = "NOT_STARTED"
        /\ hist.issued = {}
        /\ hist.quits = 0
        /\ Stopped => ExitedNonZero
        /\ (pc = "exited" /\ exc.kind # "KeyboardInterrupt") => stderr # <<>>

C5_Witness ==
    /\ hist.load_failed
    /\ pc = "exited"
    /\ options.verbose
    /\ options.error_debug
    /\ exc.kind = "Error"
    /\ engine = "NOT_STARTED"
    /\ hist.issued = {}

\* C6 as stated: the child's exit status is 0 exactly when the Stepping Engine
\* completed (FINISHED).
C6_ZeroIffFinished ==
    Stopped => (exitCode = Some(0) <=> engine = "FINISHED")

\* C6 amended: exit status 0 occurs only when the version or colortest
\* short-circuit returned before anything was loaded, or when the engine FINISHED,
\* the session was torn down and the Trace file was written with the working
\* Trace; the status is non-zero after a load failure, a FAILED engine, an
\* exception that leaves main, or a crash; and a FINISHED run that ends without
\* any error exits 0.
C6_ExitStatus ==
    Stopped =>
        /\ exitCode = Some(0) =>
              \/ /\ engine = "FINISHED"
                 /\ hist.quits = 1
                 /\ hist.writes = 1
                 /\ TraceFile = as_json(dextIR)
              \/ /\ options.version \/ options.colortest
                 /\ engine = "NOT_STARTED"
                 /\ dbg = NewDebugger
                 /\ files = preRun
        /\ (hist.load_failed \/ engine = "FAILED" \/ exc.kind # "none" \/ pc = "crashed"
              \/ stderr # <<>>) => ExitedNonZero
        /\ (pc = "exited" /\ engine = "FINISHED" /\ exc.kind = "none" /\ stderr = <<>>) =>
              exitCode = Some(0)

C6_Witness ==
    /\ pc = "exited"
    /\ exitCode = Some(0)
    /\ engine = "FINISHED"
    /\ Len(dextIR.steps) = 1
    /\ TraceFile = as_json(dextIR)

FirstStartup(stack) ==
    IF \E i \in 1..Len(stack) : IsBelowMain(stack[i])
    THEN CHOOSE i \in 1..Len(stack) :
            /\ IsBelowMain(stack[i])
            /\ \A j \in 1..(i - 1) : ~IsBelowMain(stack[j])
    ELSE Len(stack) + 1

\* C8: for every call stack, the frames get_step_info retains are exactly the
\* frames before the first one whose name matches a runtime-startup name, in the
\* stack's own order.
C8_FramesAboveStartup ==
    (probe.op = "get_step_info" /\ probe.done) =>
        LET frames == The(probe.step).frames
        IN  /\ Len(frames) = FirstStartup(probe.arg) - 1
            /\ \A i \in 1..Len(frames) : frames[i].function = probe.arg[i]

C8_Witness ==
    /\ probe.op = "get_step_info"
    /\ probe.done
    /\ probe.arg = << <<"foo">>, <<"bar">>, <<"mainCRTStartup">>, <<"__t", "mainCRTStartup">> >>
    /\ Len(The(probe.step).frames) = 2
    /\ The(probe.step).frames[1].function = <<"foo">>
    /\ The(probe.step).frames[2].function = <<"bar">>

\* C9: every Step of the Trace has stop_reason STEP when the last-hit breakpoint
\* queried for it gave no path and BREAKPOINT when it gave one, whatever frames
\* were retained.
C9_StopReasonFromPath ==
    /\ Len(hist.queried) = Len(dextIR.steps)
    /\ \A i \in 1..Len(dextIR.steps) :
          dextIR.steps[i].stop_reason =
              IF hist.queried[i].bp = None THEN "STEP" ELSE "BREAKPOINT"

C9_Witness ==
    /\ Len(dextIR.steps) = 3
    /\ hist.queried[1].bp = Some(Breakpoint("a.cpp", 10, 1))
    /\ hist.queried[2].bp = Some(Breakpoint("a.cpp", 11, 1))
    /\ hist.queried[3].bp = None
    /\ dextIR.steps[1].stop_reason = "BREAKPOINT"
    /\ dextIR.steps[2].stop_reason = "BREAKPOINT"
    /\ dextIR.steps[3].stop_reason = "STEP"
    /\ dextIR.steps[2].frames = <<>>
    /\ dextIR.steps[3].frames # <<>>

HasOptimizedAwayText(value) == \E s \in OptimizedAwayTexts : IsInfix(s, value)
HasIrretrievableText(value) == \E s \in IrretrievableTexts : IsInfix(s, value)

\* C10 as stated: a value text that matches an optimized-away sentinel gives
\* could_evaluate and is_optimized_away true and is_irretrievable false.
C10_OptimizedAwayNotIrretrievable ==
    (probe.op = "evaluate_expression" /\ probe.done /\ HasOptimizedAwayText(probe.arg)) =>
        /\ The(probe.value).could_evaluate
        /\ The(probe.value).is_optimized_away
        /\ ~The(probe.value).is_irretrievable

\* C10 amended: a value text that matches an optimized-away sentinel gives
\* could_evaluate and is_optimized_away true, valid or not; is_irretrievable is
\* false unless the text also contains an irretrievable sentinel, and true then.
C10_OptimizedAwayFlags ==
    (probe.op = "evaluate_expression" /\ probe.done /\ HasOptimizedAwayText(probe.arg)) =>
        /\ The(probe.value).could_evaluate
        /\ The(probe.value).is_optimized_away
        /\ The(probe.value).is_irretrievable <=> HasIrretrievableText(probe.arg)

C10_Witness ==
    /\ probe.op = "evaluate_expression"
    /\ probe.done
    /\ ~probe.valid
    /\ probe.arg = <<"Variable is optimized away and not available">>
    /\ The(probe.value).could_evaluate
    /\ The(probe.value).is_optimized_away
    /\ ~The(probe.value).is_irretrievable

\* C11: the step that handles the options leaves as working configuration the
\* pickled options payload with exactly four fields (working_directory, lint,
\* unittest and the Trace file path json) taken from the child's live options,
\* every other field keeping its pickled value, and leaves as working Trace the
\* deserialized content of the Trace file the live options name.
C11_MergedOptions ==
    [][(pc = "tm_base" /\ pc' = "go_load") =>
          LET live == options
              pickled == files[PicklePath][1]
              carried == {"working_directory", "lint", "unittest", "json"}
          IN  /\ DOMAIN options' = DOMAIN pickled
              /\ \A f \in carried : options'[f] = live[f]
              /\ \A f \in (DOMAIN pickled) \ carried : options'[f] = pickled[f]
              /\ dextIR' = importDextIR(files[live.json])
              /\ files' = files]_vars

C11_Witness ==
    /\ pc = "go_load"
    /\ options.json = LivePath
    /\ options.working_directory = "child_wd"
    /\ options.lint = "errors"
    /\ options.unittest = "show-failures"
    /\ options.verbose
    /\ options.error_debug
    /\ files[PicklePath][1].json = StalePath
    /\ files[PicklePath][1].lint = "parent"
    /\ dextIR = importDextIR(files[LivePath])

\* C12: whenever attaching to or setting up the backend failed (importing the COM
\* module, constructing the DTE interface, reading Debugger, MainWindow or
\* Solution, creating the solution, adding the executable), the failure is held
\* as the driver's LoadDebuggerException, with the original diagnostic and a
\* trace, and no exception of another kind carrying that diagnostic is in flight.
C12_SetupFailureIsLoadFailure ==
    hist.fault # "none" =>
        /\ dbg.loading_error # None
        /\ IsInfix(The(dbg.loading_error), dbg.loading_error_trace)
        /\ ~(exc.kind = "Exception" /\ exc.msg = The(dbg.loading_error))

\* the breakpoint set of a collection: the places that have a breakpoint
BreakpointSet(bps) ==
    {[File |-> bps[i].File, FileLine |-> bps[i].FileLine] : i \in 1..Len(bps)}

EngineTransition ==
    /\ (engine = "NOT_STARTED" /\ engine' # engine) =>
          /\ pc = "eng_launch"
          /\ \/ /\ engine' = "STEPPING"
                /\ hist'.issued = {"launch", "step"}
                /\ hist'.calls = 1
                /\ is_running(backend')
             \/ /\ engine' = "FAILED"
                /\ hist'.calls = 0
    /\ (engine = "STEPPING" /\ engine' # engine) =>
          \/ /\ engine' = "FINISHED"
             /\ exc' = NoException
             /\ is_finished(backend) \/ Len(dextIR.steps) >= options.max_steps
          \/ /\ engine' = "FAILED"
             /\ exc'.kind \in {"Error", "Exception"}
    /\ (pc \in {"eng_launch", "eng_poll", "eng_advance"}
           /\ exc'.kind \in {"Error", "Exception"}) => engine' = "FAILED"
    /\ engine \in {"FINISHED", "FAILED"} =>
          /\ engine' = engine
          /\ dextIR'.steps = dextIR.steps
          /\ hist'.issued = hist.issued
          /\ hist'.calls = hist.calls

ChecksFollow(order) ==
    /\ Len(hist.checks) <= Len(order)
    /\ \A i \in 1..Len(hist.checks) :
          /\ hist.checks[i].check = order[i]
          /\ i < Len(hist.checks) => hist.checks[i].result = "passed"

\* Tool.go has been called
GoInvoked ==
    \/ pc \in {"go_load", "go_check", "go_enter", "eng_launch", "eng_poll",
               "eng_advance", "go_exit", "go_open", "go_write", "tm_return"}
    \/ dbg # NewDebugger
    \/ engine # "NOT_STARTED"
    \/ hist.fault # "none"
    \/ files # preRun

\* a check of tool_main failed: unit tests, linting, or the base options
CheckFailed ==
    \E i \in 1..Len(hist.checks) : hist.checks[i].result = "failed"

\* what holds of go() and of the exit status whatever the order of the checks
GoOnlyAfterChecks(order) ==
    /\ ChecksFollow(order)
    /\ GoInvoked =>
          /\ Len(hist.checks) = Len(order)
          /\ \A i \in 1..Len(order) : hist.checks[i].result = "passed"
    /\ CheckFailed =>
          /\ ~GoInvoked
          /\ pc = "exited" => exitCode = Some(1)

\* C17 as stated: go() is invoked only after the version and colortest
\* short-circuits, then the unit tests, then linting, then the base options, in
\* this order, all went through; after a failure of unit tests, linting or base
\* options go() is never invoked and the exit status is 1.
C17_ShortCircuitsFirst ==
    GoOnlyAfterChecks(<<"version", "colortest", "unittest", "lint", "base">>)

\* C17 amended: the order is version short-circuit, unit tests, linting,
\* colortest short-circuit, base options: the colortest short-circuit is
\* reached only after unit tests and linting went through.  go() is invoked
\* only after all five went through in that order; after a failure of unit
\* tests, linting or base options go() is never invoked and the exit status
\* is 1.
C17_GoOnlyAfterChecks ==
    GoOnlyAfterChecks(<<"version", "unittest", "lint", "colortest", "base">>)

C17_Witness ==
    /\ pc = "exited"
    /\ options.colortest
    /\ CheckFailed
    /\ hist.checks[Len(hist.checks)].check = "lint"
    /\ exitCode = Some(1)
    /\ ~GoInvoked
    /\ ~options.error_debug

\* the session is held: the with scope is entered and the interface not yet quit
SessionHeld == hist.entered /\ hist.quits = 0

\* C18: the Trace file is written at most once; whenever it differs from its
\* pre-run content, or a write is counted, the engine is FINISHED and the session
\* has been released (the interface quit once, the backend idle); while the
\* session is held, and in every run whose engine did not finish, nothing has
\* been written; no other file is ever changed.
C18_WriteOnceAfterRelease ==
    /\ hist.writes <= 1
    /\ (files # preRun \/ hist.writes > 0 \/ pc \in {"go_open", "go_write"}) =>
          /\ engine = "FINISHED"
          /\ hist.entered
          /\ hist.quits = 1
          /\ backend = IdleBackend
    /\ (SessionHeld \/ engine # "FINISHED") =>
          /\ files = preRun
          /\ hist.writes = 0
    /\ \A f \in DOMAIN files \ {LivePath} : files[f] = preRun[f]

C18_Witness ==
    /\ pc = "exited"
    /\ exitCode = Some(0)
    /\ hist.writes = 1
    /\ hist.quits = 1
    /\ engine = "FINISHED"
    /\ Len(dextIR.steps) = 2
    /\ TraceFile # preRun[LivePath]

\* C19: in every result of evaluate_expression, is_optimized_away or
\* is_irretrievable implies could_evaluate; could_evaluate is false only when
\* the backend reported the value invalid and its text contains no
\* optimized-away and no irretrievable sentinel; the result is returned as data
\* with the value text as given and error_string absent, and nothing is raised.
C19_CouldEvaluate ==
    (probe.op = "evaluate_expression" /\ probe.done) =>
        LET r == The(probe.value)
        IN  /\ probe.value # None
            /\ (r.is_optimized_away \/ r.is_irretrievable) => r.could_evaluate
            /\ ~r.could_evaluate =>
                  /\ ~probe.valid
                  /\ ~HasOptimizedAwayText(probe.arg)
                  /\ ~HasIrretrievableText(probe.arg)
            /\ r.error_string = None
            /\ r.value = probe.arg
            /\ exc = NoException

C19_Witness ==
    /\ probe.op = "evaluate_expression"
    /\ probe.done
    /\ ~probe.valid
    /\ probe.arg = <<"42">>
    /\ ~The(probe.value).could_evaluate
    /\ ~The(probe.value).is_optimized_away
    /\ ~The(probe.value).is_irretrievable
    /\ The(probe.value).error_string = None

\* C20: when the innermost frame the backend reports has a function name that
\* contains a runtime-startup name, get_step_info returns a Step with no frame
\* at all, so the queried Location is on no frame, while stop_reason is
\* BREAKPOINT if the last-hit breakpoint gave a path and STEP if it gave none,
\* and step_index is the index the driver had.
C20_StartupFrameInnermost ==
    (probe.op = "get_step_info" /\ probe.done /\ probe.arg # <<>>
        /\ IsBelowMain(probe.arg[1])) =>
        /\ The(probe.step).frames = <<>>
        /\ The(probe.step).stop_reason = IF probe.bp = None THEN "STEP" ELSE "BREAKPOINT"
        /\ The(probe.step).step_index = probe.index

C20_Witness ==
    /\ probe.op = "get_step_info"
    /\ probe.done
    /\ probe.arg = << <<"mainCRTStartup">>, <<"foo">> >>
    /\ probe.bp = Some(Breakpoint("a.cpp", 10, 1))
    /\ probe.index = 1
    /\ The(probe.step) = StepIR(1, <<>>, "BREAKPOINT")

====
